---- MODULE Spec2Model ----
(***************************************************************************)
(* Melody Creator: Note, Tempo and Melody of the melody_creator package.   *)
(* Rational quantities (fractions.Fraction) are pairs <<numerator,         *)
(* denominator>> in lowest terms with a positive denominator.  Objects     *)
(* live in a heap and are referred to by their index, so a mutation of a   *)
(* Note is seen by every Melody that holds it.                             *)
(***************************************************************************)
EXTENDS Integers, Sequences, FiniteSets

VARIABLES
    heap,      \* the Note objects constructed so far, by identity
    melody,    \* the Melody object, or NoMelody
    stream,    \* the parsed score handed to Melody.from_stream
    tempo,     \* the Tempo object a caller holds
    last,      \* the most recent call and what it returned
    prev       \* the call before that, where a specification keeps it

vars == <<heap, melody, stream, tempo, last, prev>>

----------------------------------------------------------------------------
(* Bounds of the model *)

MaxNotes == 2
MaxBpm == 8
MaxMarks == 3

----------------------------------------------------------------------------
(* fractions.Fraction *)

Abs(x) == IF x < 0 THEN -x ELSE x

RECURSIVE GCD(_, _)
GCD(a, b) == IF b = 0 THEN a ELSE GCD(b, a % b)

\* Fraction(n, d): normalised to lowest terms, the sign in the numerator
Fraction(n, d) ==
    LET g == GCD(Abs(n), Abs(d))
        s == IF d < 0 THEN -1 ELSE 1
    IN  <<(s * n) \div g, (s * d) \div g>>

FromInt(n) == <<n, 1>>
FracAdd(x, y) == Fraction(x[1] * y[2] + y[1] * x[2], x[2] * y[2])
FracSub(x, y) == Fraction(x[1] * y[2] - y[1] * x[2], x[2] * y[2])
FracMul(x, y) == Fraction(x[1] * y[1], x[2] * y[2])
FracDiv(x, y) == Fraction(x[1] * y[2], x[2] * y[1])
FracLT(x, y) == x[1] * y[2] < y[1] * x[2]
FracLE(x, y) == x[1] * y[2] <= y[1] * x[2]
FracMin(x, y) == IF FracLT(y, x) THEN y ELSE x
FracMax(x, y) == IF FracLT(x, y) THEN y ELSE x

\* round(Fraction): to the nearest integer, a tie to the even neighbour
Round(x) ==
    LET floor == x[1] \div x[2]
        remainder == x[1] % x[2]
    IN  IF remainder * 2 < x[2] THEN floor
        ELSE IF remainder * 2 > x[2] THEN floor + 1
        ELSE IF floor % 2 = 0 THEN floor
        ELSE floor + 1

----------------------------------------------------------------------------
(* articulations.py *)

STACCATISSIMO == Fraction(1, 7)
STACCATO == Fraction(2, 7)
MEZZO_STACCATO == Fraction(3, 7)
PORTATO == Fraction(4, 7)
NON_LEGATO == Fraction(5, 7)
TENUTO == Fraction(6, 7)
LEGATO == FromInt(1)

----------------------------------------------------------------------------
(* Call records *)

NoCall == [op |-> "none"]
NoMelody == [op |-> "none"]
NoStream == [op |-> "none"]
NoTempo == [op |-> "none"]

----------------------------------------------------------------------------
(* note.py *)

\* A raised exception, in the place of a return value
Raise(exception) == [raised |-> exception]
Raised(value) == "raised" \in DOMAIN value

\* Note.__init__
Note(pitch, offset, duration, articulation) ==
    [pitch |-> pitch,
     offset |-> Fraction(offset[1], offset[2]),
     duration |-> Fraction(duration[1], duration[2]),
     articulation |-> Fraction(articulation[1], articulation[2])]

\* Note.end_offset
end_offset(self) == FracAdd(self.offset, self.duration)

\* tie_with starting the tied note at the receiver's offset
tie_with_from_self(self, other) ==
    IF self.pitch # other.pitch
    THEN Raise("ValueError")
    ELSE LET offset == self.offset
             duration == FracMax(FracSub(end_offset(self), offset),
                                 FracSub(end_offset(other), offset))
         IN  Note(self.pitch, offset, duration, other.articulation)

\* Note.tie_with
tie_with(self, other) ==
    IF self.pitch # other.pitch
    THEN Raise("ValueError")
    ELSE LET offset == FracMin(self.offset, other.offset)
             duration == FracMax(FracSub(end_offset(self), offset),
                                 FracSub(end_offset(other), offset))
         IN  Note(self.pitch, offset, duration, other.articulation)

----------------------------------------------------------------------------
(* tempo.py *)

\* int(x) of a rational: truncation towards zero
int(x) == IF x[1] < 0 THEN -((-x[1]) \div x[2]) ELSE x[1] \div x[2]

\* Tempo.__init__; the rate is given as a rational and stored as an integer
Tempo(subdivision, beats_per_minute) ==
    [subdivision |-> Fraction(subdivision[1], subdivision[2]),
     beats_per_minute |-> int(beats_per_minute)]

\* Tempo.quarter_equals
quarter_equals(beats_per_minute) == Tempo(Fraction(1, 4), FromInt(beats_per_minute))

\* The conversion with the new rate truncated instead of rounded
convert_to_subdivision_truncating(self, subdivision) ==
    Tempo(subdivision,
          FracDiv(FracMul(FromInt(self.beats_per_minute), subdivision),
                  self.subdivision))

\* Tempo.convert_to_subdivision
convert_to_subdivision(self, subdivision) ==
    Tempo(subdivision,
          FromInt(Round(FracDiv(FracMul(FromInt(self.beats_per_minute), subdivision),
                                self.subdivision))))

\* The conversion with the rate taken per whole note, the subdivision ignored
wholes_to_milliseconds_per_whole(self, duration) ==
    Round(FracMul(FracDiv(duration, FromInt(self.beats_per_minute)), FromInt(60000)))

\* Tempo.__wholes_to_milliseconds
wholes_to_milliseconds(self, duration) ==
    Round(FracMul(FracDiv(duration,
                          FracMul(FromInt(self.beats_per_minute), self.subdivision)),
                  FromInt(60000)))

\* MachineNote
MachineNote(frequency, offset_millis, duration_millis) ==
    [frequency |-> frequency, offset_millis |-> offset_millis,
     duration_millis |-> duration_millis]

\* The projection with the sign of the correction reversed
note_to_machine_note_reversed(self, note) ==
    LET actual_duration_wholes == FracMul(note.articulation, note.duration)
    IN  MachineNote(Round(note.pitch),
                    wholes_to_milliseconds(self, note.offset),
                    wholes_to_milliseconds(self, actual_duration_wholes) - 100
                        + Round(FracMul(note.articulation, FromInt(100))))

\* Tempo.note_to_machine_note
note_to_machine_note(self, note) ==
    LET actual_duration_wholes == FracMul(note.articulation, note.duration)
    IN  MachineNote(Round(note.pitch),
                    wholes_to_milliseconds(self, note.offset),
                    100 + wholes_to_milliseconds(self, actual_duration_wholes)
                        - Round(FracMul(note.articulation, FromInt(100))))

----------------------------------------------------------------------------
(* melody.py: Melody.  A Melody holds references to Note objects, so the    *)
(* operators take the heap h in which the references are resolved.         *)

\* sorted(notes, key=lambda n: n.offset) keeps the order of equal keys: note
\* id goes behind every note of sorted_notes whose offset is not larger
RECURSIVE insert_by_offset(_, _, _)
insert_by_offset(sorted_notes, id, h) ==
    IF sorted_notes = <<>>
    THEN <<id>>
    ELSE LET back == sorted_notes[Len(sorted_notes)]
         IN  IF FracLT(h[id].offset, h[back].offset)
             THEN Append(insert_by_offset(SubSeq(sorted_notes, 1, Len(sorted_notes) - 1),
                                          id, h),
                         back)
             ELSE Append(sorted_notes, id)

RECURSIVE sorted_by_offset(_, _)
sorted_by_offset(notes, h) ==
    IF notes = <<>>
    THEN <<>>
    ELSE insert_by_offset(sorted_by_offset(SubSeq(notes, 1, Len(notes) - 1), h),
                          notes[Len(notes)], h)

\* Melody.__init__
Melody(notes, melody_tempo, h) ==
    [notes |-> sorted_by_offset(notes, h), tempo |-> melody_tempo]

\* Melody.number_of_notes
number_of_notes(self) == Len(self.notes)

\* Melody.duration, of a melody with a last note
melody_duration(self, h) ==
    FracAdd(h[self.notes[Len(self.notes)]].offset,
            h[self.notes[Len(self.notes)]].duration)

\* Melody.get_machine_notes
get_machine_notes(self, h) ==
    [i \in 1 .. Len(self.notes) |-> note_to_machine_note(self.tempo, h[self.notes[i]])]

\* Melody.get_actual_duration, of a melody with a last note
get_actual_duration(self, h) ==
    LET mnotes == get_machine_notes(self, h)
    IN  mnotes[Len(mnotes)].offset_millis + mnotes[Len(mnotes)].duration_millis

\* re.fullmatch(r'[A-Za-z_]+', variable_name) over the characters of the model
Letters == {"M", "Y", "m", "y"}
fullmatch_identifier(variable_name) ==
    /\ Len(variable_name) > 0
    /\ \A i \in 1 .. Len(variable_name) : variable_name[i] \in Letters \cup {"_"}

\* Melody.get_cpp_string, for an accepted name: the element count, the name and
\* one row {frequency, offset_millis, duration_millis} per machine note
get_cpp_string(self, variable_name, h) ==
    LET mnotes == get_machine_notes(self, h)
    IN  [count |-> number_of_notes(self),
         name |-> variable_name,
         rows |-> [i \in 1 .. Len(mnotes) |->
                      <<mnotes[i].frequency, mnotes[i].offset_millis,
                        mnotes[i].duration_millis>>]]

\* Melody.get_audio_segment, of a melody with a last note: the length of the
\* silent track and the position and length of every overlaid square wave
get_audio_segment(self, h) ==
    LET mnotes == get_machine_notes(self, h)
    IN  [length |-> get_actual_duration(self, h),
         overlays |-> [i \in 1 .. Len(mnotes) |->
                          [frequency |-> mnotes[i].frequency,
                           position |-> mnotes[i].offset_millis,
                           duration |-> mnotes[i].duration_millis]],
         gain |-> Fraction(2, 100)]

\* MUSIC21_ARTICULATION_MAPPING, keyed by the type of the marking
MUSIC21_ARTICULATION_MAPPING ==
    [kind \in {"Staccatissimo", "Staccato", "Spiccato", "DetachedLegato", "Tenuto"} |->
        CASE kind = "Staccatissimo" -> STACCATISSIMO
          [] kind = "Staccato" -> STACCATO
          [] kind = "Spiccato" -> STACCATISSIMO
          [] kind = "DetachedLegato" -> NON_LEGATO
          [] kind = "Tenuto" -> TENUTO]

\* any(a for a in articulations if type(a) is kind)
any_of_type(articulations, kind) ==
    \E i \in 1 .. Len(articulations) : articulations[i] = kind

\* next((a for a in articulations if type(a) in MUSIC21_ARTICULATION_MAPPING), None)
NoArticulation == "None"
first_mapped(articulations) ==
    IF \E i \in 1 .. Len(articulations) :
           articulations[i] \in DOMAIN MUSIC21_ARTICULATION_MAPPING
    THEN articulations[CHOOSE i \in 1 .. Len(articulations) :
             /\ articulations[i] \in DOMAIN MUSIC21_ARTICULATION_MAPPING
             /\ \A j \in 1 .. i - 1 :
                    articulations[j] \notin DOMAIN MUSIC21_ARTICULATION_MAPPING]
    ELSE NoArticulation

\* _get_tempo_from_stream: the first tempo indication of the score, if any
NoIndication == [op |-> "none"]
get_tempo_from_stream(score) ==
    IF score.tempo_indication # NoIndication
    THEN Tempo(FracDiv(score.tempo_indication.referent, FromInt(4)),
               score.tempo_indication.numberSounding)
    ELSE NoTempo

\* The notes of a slur but its last: getSpannedElementsByClass(Note)[:-1]
legato_notes(slur) == {slur[i] : i \in 1 .. Len(slur) - 1}

\* The first pass of from_stream: one Note per note of the score, non-legato
converted_notes(score) ==
    [i \in 1 .. Len(score.notes) |->
        Note(score.notes[i].pitch,
             FracDiv(score.notes[i].offset, FromInt(4)),
             FracDiv(score.notes[i].quarterLength, FromInt(4)),
             NON_LEGATO)]

\* The slur pass of from_stream
slurred_notes(score, notes) ==
    [i \in 1 .. Len(notes) |->
        IF \E slur \in score.slurs : i \in legato_notes(slur)
        THEN [notes[i] EXCEPT !.articulation = Fraction(LEGATO[1], LEGATO[2])]
        ELSE notes[i]]

\* The marking pass with the marking of a slurred note left aside
marked_notes_keeping_slurs(score, notes) ==
    [i \in 1 .. Len(notes) |->
        LET articulations == score.notes[i].articulations
        IN
        IF \E slur \in score.slurs : i \in legato_notes(slur)
        THEN notes[i]
        ELSE IF articulations = <<>>
        THEN notes[i]
        ELSE IF any_of_type(articulations, "Staccato")
                /\ any_of_type(articulations, "Tenuto")
        THEN [notes[i] EXCEPT !.articulation = MEZZO_STACCATO]
        ELSE IF first_mapped(articulations) # NoArticulation
        THEN [notes[i] EXCEPT !.articulation =
                 MUSIC21_ARTICULATION_MAPPING[first_mapped(articulations)]]
        ELSE notes[i]]

\* The marking pass with the combined marking not special-cased
marked_notes_first_only(score, notes) ==
    [i \in 1 .. Len(notes) |->
        LET articulations == score.notes[i].articulations
        IN  IF articulations = <<>>
            THEN notes[i]
            ELSE IF first_mapped(articulations) # NoArticulation
            THEN [notes[i] EXCEPT !.articulation =
                     MUSIC21_ARTICULATION_MAPPING[first_mapped(articulations)]]
            ELSE notes[i]]

\* The marking pass of from_stream
marked_notes(score, notes) ==
    [i \in 1 .. Len(notes) |->
        LET articulations == score.notes[i].articulations
        IN  IF articulations = <<>>
            THEN notes[i]
            ELSE IF any_of_type(articulations, "Staccato")
                    /\ any_of_type(articulations, "Tenuto")
            THEN [notes[i] EXCEPT !.articulation = MEZZO_STACCATO]
            ELSE IF first_mapped(articulations) # NoArticulation
            THEN [notes[i] EXCEPT !.articulation =
                     MUSIC21_ARTICULATION_MAPPING[first_mapped(articulations)]]
            ELSE notes[i]]

\* Melody.from_stream: the Note objects made, and the Melody of all of them
from_stream(score) ==
    LET notes == marked_notes(score, slurred_notes(score, converted_notes(score)))
        found == get_tempo_from_stream(score)
        stream_tempo == IF found = NoTempo THEN quarter_equals(120) ELSE found
    IN  [heap |-> notes,
         melody |-> Melody([i \in 1 .. Len(notes) |-> i], stream_tempo, notes)]

----------------------------------------------------------------------------
(* Tempo objects under conversion *)

Subdivisions == {Fraction(1, 16), Fraction(1, 8), Fraction(1, 4), Fraction(3, 8),
                 Fraction(1, 2)}
BeatsPerMinute == (1 .. MaxBpm) \cup {120}

InitTempo ==
    /\ heap = <<>>
    /\ melody = NoMelody
    /\ stream = NoStream
    /\ tempo = NoTempo
    /\ last = NoCall
    /\ prev = NoCall

TempoInit(subdivision, beats_per_minute) ==
    /\ tempo' = Tempo(subdivision, FromInt(beats_per_minute))
    /\ last' = [op |-> "Tempo", value |-> tempo']
    /\ UNCHANGED <<heap, melody, stream>>

QuarterEquals(beats_per_minute) ==
    /\ tempo' = quarter_equals(beats_per_minute)
    /\ last' = [op |-> "quarter_equals", value |-> tempo']
    /\ UNCHANGED <<heap, melody, stream>>

ConvertToSubdivision(subdivision) ==
    /\ tempo # NoTempo
    /\ tempo' = convert_to_subdivision(tempo, subdivision)
    /\ last' = [op |-> "convert_to_subdivision", self |-> tempo,
                arg |-> subdivision, value |-> tempo']
    /\ UNCHANGED <<heap, melody, stream>>

\* Every call moves the call before it to prev
NextTempo ==
    \/ \E s \in Subdivisions, b \in BeatsPerMinute : TempoInit(s, b) /\ prev' = last
    \/ \E b \in BeatsPerMinute : QuarterEquals(b) /\ prev' = last
    \/ \E s \in Subdivisions : ConvertToSubdivision(s) /\ prev' = last

SpecTempo == InitTempo /\ [][NextTempo]_vars

\* The last two calls are t.convert_to_subdivision(s) and, on its result,
\* convert_to_subdivision(s0), where t has subdivision s0 and a positive rate
RoundTrip ==
    /\ prev.op = "convert_to_subdivision"
    /\ last.op = "convert_to_subdivision"
    /\ last.self = prev.value
    /\ last.arg = prev.self.subdivision
    /\ prev.self.beats_per_minute > 0

RoundTripError == Abs(last.value.beats_per_minute - prev.self.beats_per_minute)

\* C7 as stated: the round trip through any subdivision s gives back the
\* subdivision s0 and a rate within 1 of the original rate
C7_RoundTripWithinOne ==
    RoundTrip =>
        /\ last.value.subdivision = prev.self.subdivision
        /\ RoundTripError <= 1

\* C7 amended: the round trip gives back the subdivision s0 and a rate b' with
\* |b' - b| <= 1/2 + s0 / (2 s); it is within 1 of b whenever s >= s0
C7_RoundTripBound ==
    RoundTrip =>
        /\ last.value.subdivision = prev.self.subdivision
        /\ FracLE(FracMul(FromInt(2 * RoundTripError), prev.arg),
                  FracAdd(prev.self.subdivision, prev.arg))
        /\ FracLE(prev.self.subdivision, prev.arg) => RoundTripError <= 1

\* A round trip through a finer subdivision that does not give the rate back
C7_Witness ==
    /\ RoundTrip
    /\ FracLT(prev.arg, prev.self.subdivision)
    /\ RoundTripError >= 1

----------------------------------------------------------------------------
(* Note objects: construction, the articulation setter and ties *)

\* Pitches by their frequency in Hertz (pitch.freq440): A4 and C4
Pitches == {Fraction(440, 1), Fraction(26163, 100)}
NoteOffsets == {Fraction(0, 1), Fraction(1, 2)}
NoteDurations == {Fraction(0, 1), Fraction(1, 4)}
NoteArticulations == {Fraction(0, 1), NON_LEGATO, LEGATO}

InitNote ==
    /\ heap = <<>>
    /\ melody = NoMelody
    /\ stream = NoStream
    /\ tempo = NoTempo
    /\ last = NoCall
    /\ prev = NoCall

\* Note(pitch, offset, duration, articulation)
NoteInit(pitch, offset, duration, articulation) ==
    /\ Len(heap) < MaxNotes
    /\ heap' = Append(heap, Note(pitch, offset, duration, articulation))
    /\ last' = [op |-> "Note", id |-> Len(heap')]
    /\ UNCHANGED <<melody, stream, tempo>>

\* Note(pitch, offset, duration): the articulation defaults to NON_LEGATO
NoteInitDefault(pitch, offset, duration) ==
    NoteInit(pitch, offset, duration, NON_LEGATO)

\* note.articulation = articulation
SetArticulation(id, articulation) ==
    /\ heap' = [heap EXCEPT ![id].articulation =
                    Fraction(articulation[1], articulation[2])]
    /\ last' = [op |-> "articulation.setter", id |-> id]
    /\ UNCHANGED <<melody, stream, tempo>>

\* heap[a].tie_with(heap[b]); the caller holds the returned Note
TieWith(a, b) ==
    /\ last' = [op |-> "tie_with", self |-> heap[a], other |-> heap[b],
                value |-> tie_with(heap[a], heap[b])]
    /\ UNCHANGED <<heap, melody, stream, tempo>>

\* Only the most recent call is kept
NextNote ==
    \/ \E p \in Pitches, o \in NoteOffsets, d \in NoteDurations,
          a \in NoteArticulations : NoteInit(p, o, d, a) /\ UNCHANGED prev
    \/ \E p \in Pitches, o \in NoteOffsets, d \in NoteDurations :
          NoteInitDefault(p, o, d) /\ UNCHANGED prev
    \/ \E id \in DOMAIN heap, a \in NoteArticulations :
          SetArticulation(id, a) /\ UNCHANGED prev
    \/ \E a \in DOMAIN heap, b \in DOMAIN heap : TieWith(a, b) /\ UNCHANGED prev

SpecNote == InitNote /\ [][NextNote]_vars

ValidNote(note) ==
    /\ FracLT(FromInt(0), note.duration)
    /\ FracLT(FromInt(0), note.articulation)
    /\ FracLE(note.articulation, FromInt(1))

\* C5: every Note that exists has duration > 0 and 0 < articulation <= 1
\* (a construction or an assignment that would break this fails instead)
C5_NoteInvariant ==
    /\ \A id \in DOMAIN heap : ValidNote(heap[id])
    /\ (last.op = "tie_with" /\ ~Raised(last.value)) => ValidNote(last.value)

\* A tie of two notes of the same pitch has returned
Tied(call) == call.op = "tie_with" /\ call.self.pitch = call.other.pitch

\* The interval and articulation C8 gives for a.tie_with(b)
TieAsClaimed(call) ==
    /\ ~Raised(call.value)
    /\ call.value.offset = FracMin(call.self.offset, call.other.offset)
    /\ call.value.duration =
           FracSub(FracMax(end_offset(call.self), end_offset(call.other)),
                   call.value.offset)
    /\ call.value.articulation = call.other.articulation

\* C8: a.tie_with(b) starts at the smaller offset, ends at the larger end and
\* takes b's articulation; b.tie_with(a) spans the same interval and takes a's
C8_TieWith ==
    Tied(last) =>
        /\ TieAsClaimed(last)
        /\ ~Raised(tie_with(last.other, last.self))
        /\ tie_with(last.other, last.self).offset = last.value.offset
        /\ tie_with(last.other, last.self).duration = last.value.duration
        /\ tie_with(last.other, last.self).articulation = last.self.articulation

\* A tie of a later note with an earlier, disjoint note of another articulation
C8_Witness ==
    /\ Tied(last)
    /\ FracLT(end_offset(last.other), last.self.offset)
    /\ last.self.articulation # last.other.articulation
    /\ last.value.offset = last.other.offset
    /\ last.value.duration = Fraction(3, 4)

----------------------------------------------------------------------------
(* A Melody built from Note objects: construction, emission, and the        *)
(* mutations its public attributes allow                                   *)

MelodyOffsets == {Fraction(0, 1), Fraction(1, 64)}
MelodyDurations == {Fraction(1, 64), Fraction(1, 4)}
MelodyArticulations == {STACCATISSIMO, NON_LEGATO, LEGATO}
MelodyTempos == {quarter_equals(120), Tempo(Fraction(3, 8), FromInt(50))}
VariableNames == {<<"M", "Y", "_", "M">>, <<"m", "y", "1">>, <<>>}

\* The sequences of distinct Note objects of the heap
NoteLists(h) ==
    UNION {{ids \in [1 .. n -> DOMAIN h] :
               \A i, j \in 1 .. n : i # j => ids[i] # ids[j]} : n \in 0 .. Len(h)}

InitMelody ==
    /\ heap = <<>>
    /\ melody = NoMelody
    /\ stream = NoStream
    /\ tempo = NoTempo
    /\ last = NoCall
    /\ prev = NoCall

\* Melody(notes, tempo)
MelodyInit(notes, melody_tempo) ==
    /\ melody' = Melody(notes, melody_tempo, heap)
    /\ last' = [op |-> "Melody"]
    /\ UNCHANGED <<heap, stream, tempo>>

\* Melody(notes): the tempo defaults to quarter = 120
MelodyInitDefault(notes) == MelodyInit(notes, quarter_equals(120))

\* melody.tempo = tempo (tempo is a plain attribute)
SetTempo(melody_tempo) ==
    /\ melody # NoMelody
    /\ melody' = [melody EXCEPT !.tempo = melody_tempo]
    /\ last' = [op |-> "tempo.setter"]
    /\ UNCHANGED <<heap, stream, tempo>>

\* melody.number_of_notes
GetNumberOfNotes ==
    /\ melody # NoMelody
    /\ last' = [op |-> "number_of_notes", value |-> number_of_notes(melody)]
    /\ UNCHANGED <<heap, melody, stream, tempo>>

\* melody.duration: notes[-1] of an empty list raises IndexError
GetDuration ==
    /\ melody # NoMelody
    /\ last' = IF melody.notes = <<>>
               THEN [op |-> "duration", raised |-> "IndexError"]
               ELSE [op |-> "duration", value |-> melody_duration(melody, heap)]
    /\ UNCHANGED <<heap, melody, stream, tempo>>

\* melody.get_machine_notes()
GetMachineNotes ==
    /\ melody # NoMelody
    /\ last' = [op |-> "get_machine_notes", value |-> get_machine_notes(melody, heap)]
    /\ UNCHANGED <<heap, melody, stream, tempo>>

\* melody.get_actual_duration(): mnotes[-1] of an empty list raises IndexError
GetActualDuration ==
    /\ melody # NoMelody
    /\ last' = IF melody.notes = <<>>
               THEN [op |-> "get_actual_duration", raised |-> "IndexError"]
               ELSE [op |-> "get_actual_duration",
                     value |-> get_actual_duration(melody, heap)]
    /\ UNCHANGED <<heap, melody, stream, tempo>>

\* melody.get_cpp_string(variable_name): a rejected name raises ValueError
\* before the machine notes are read
GetCppString(variable_name) ==
    /\ melody # NoMelody
    /\ last' = IF ~fullmatch_identifier(variable_name)
               THEN [op |-> "get_cpp_string", raised |-> "ValueError"]
               ELSE [op |-> "get_cpp_string",
                     value |-> get_cpp_string(melody, variable_name, heap)]
    /\ UNCHANGED <<heap, melody, stream, tempo>>

\* melody.get_audio_segment(): the silent track is built first, from
\* get_actual_duration(), which raises IndexError on an empty melody
GetAudioSegment ==
    /\ melody # NoMelody
    /\ last' = IF melody.notes = <<>>
               THEN [op |-> "get_audio_segment", raised |-> "IndexError"]
               ELSE [op |-> "get_audio_segment",
                     value |-> get_audio_segment(melody, heap)]
    /\ UNCHANGED <<heap, melody, stream, tempo>>

\* Only the most recent call is kept
NextMelody ==
    \/ \E p \in Pitches, o \in MelodyOffsets, d \in MelodyDurations,
          a \in MelodyArticulations : NoteInit(p, o, d, a) /\ UNCHANGED prev
    \/ \E p \in Pitches, o \in MelodyOffsets, d \in MelodyDurations :
          NoteInitDefault(p, o, d) /\ UNCHANGED prev
    \/ \E id \in DOMAIN heap, a \in MelodyArticulations :
          SetArticulation(id, a) /\ UNCHANGED prev
    \/ \E notes \in NoteLists(heap), t \in MelodyTempos :
          MelodyInit(notes, t) /\ UNCHANGED prev
    \/ \E notes \in NoteLists(heap) : MelodyInitDefault(notes) /\ UNCHANGED prev
    \/ \E t \in MelodyTempos : SetTempo(t) /\ UNCHANGED prev
    \/ GetNumberOfNotes /\ UNCHANGED prev
    \/ GetDuration /\ UNCHANGED prev
    \/ GetMachineNotes /\ UNCHANGED prev
    \/ GetActualDuration /\ UNCHANGED prev
    \/ \E name \in VariableNames : GetCppString(name) /\ UNCHANGED prev
    \/ GetAudioSegment /\ UNCHANGED prev

SpecMelody == InitMelody /\ [][NextMelody]_vars

\* C4: no Melody without notes exists (constructing one fails)
C4_NoEmptyMelody == melody # NoMelody => number_of_notes(melody) > 0

\* C6: once a Melody is constructed, no operation on it, its Tempo or its
\* Notes changes the machine notes that get_machine_notes returns
C6_EmissionAgreement ==
    [][(melody # NoMelody /\ last'.op # "Melody") =>
           get_machine_notes(melody', heap') = get_machine_notes(melody, heap)]_vars

\* The notes of the melody do not overlap in written time
NonOverlapping ==
    \A i \in 1 .. Len(melody.notes) - 1 :
        FracLE(end_offset(heap[melody.notes[i]]), heap[melody.notes[i + 1]].offset)

ArticulationsInRange ==
    \A i \in 1 .. Len(melody.notes) :
        /\ FracLT(FromInt(0), heap[melody.notes[i]].articulation)
        /\ FracLE(heap[melody.notes[i]].articulation, FromInt(1))

\* C10: the silent track of the audio preview of a non-overlapping melody is
\* at least as long as the end of every square wave overlaid on it
C10_TrackHoldsEveryNote ==
    (/\ last.op = "get_audio_segment"
     /\ ~Raised(last)
     /\ NonOverlapping
     /\ ArticulationsInRange) =>
        \A i \in 1 .. Len(last.value.overlays) :
            last.value.overlays[i].position + last.value.overlays[i].duration
                <= last.value.length

----------------------------------------------------------------------------
(* The projection of one Note in one Tempo *)

ProjectionOffsets == {Fraction(0, 1), Fraction(1, 64), Fraction(1, 4)}
ProjectionDurations == {Fraction(1, 64), Fraction(1, 4), Fraction(1, 1)}
ProjectionArticulations ==
    {STACCATISSIMO, STACCATO, MEZZO_STACCATO, PORTATO, NON_LEGATO, TENUTO, LEGATO,
     Fraction(199, 200)}

\* The caller holds any Tempo with a positive rate and any one Note
InitProjection ==
    /\ \E s \in Subdivisions, b \in BeatsPerMinute : tempo = Tempo(s, FromInt(b))
    /\ \E p \in Pitches, o \in ProjectionOffsets, d \in ProjectionDurations,
          a \in ProjectionArticulations : heap = <<Note(p, o, d, a)>>
    /\ melody = NoMelody
    /\ stream = NoStream
    /\ last = NoCall
    /\ prev = NoCall

\* tempo.note_to_machine_note(heap[id])
NoteToMachineNote(id) ==
    /\ last' = [op |-> "note_to_machine_note",
                value |-> note_to_machine_note(tempo, heap[id])]
    /\ UNCHANGED <<heap, melody, stream, tempo, prev>>

NextProjection == \E id \in DOMAIN heap : NoteToMachineNote(id)

SpecProjection == InitProjection /\ [][NextProjection]_vars

Projected == last.op = "note_to_machine_note"

\* The single note of the end-to-end scenario, in the tempo quarter = 120
Scenario ==
    /\ Projected
    /\ tempo = quarter_equals(120)
    /\ heap[1] = Note(Fraction(440, 1), Fraction(0, 1), Fraction(1, 4), NON_LEGATO)

\* C1 as stated: the scenario's note projects to frequency 440, offset_millis 0
\* and duration_millis 208
C1_Scenario208 == Scenario => last.value = MachineNote(440, 0, 208)

\* C1 amended: the scenario's note projects to frequency 440, offset_millis 0
\* and duration_millis 386 = 100 + 357 - 71
C1_Scenario386 == Scenario => last.value = MachineNote(440, 0, 386)

\* The scenario's note has been projected
C1_Witness == Scenario /\ last.value.duration_millis = 100 + 357 - 71

\* The milliseconds of pure ratio scaling, and of the written duration
RatioScaled ==
    wholes_to_milliseconds(tempo, FracMul(heap[1].articulation, heap[1].duration))
Written == wholes_to_milliseconds(tempo, heap[1].duration)

\* C9 as stated: a legato note lasts the milliseconds of its written duration
\* and a detached note less than the milliseconds of pure ratio scaling
C9_DetachedShorter ==
    Projected =>
        /\ heap[1].articulation = LEGATO => last.value.duration_millis = Written
        /\ FracLT(heap[1].articulation, LEGATO) =>
               last.value.duration_millis < RatioScaled

\* C9 amended: a legato note lasts the milliseconds of its written duration; a
\* detached note never lasts less than the milliseconds of pure ratio scaling,
\* and lasts 86 ms more when staccatissimo and 71 ms more when staccato
C9_DetachedNotShorter ==
    Projected =>
        /\ heap[1].articulation = LEGATO => last.value.duration_millis = Written
        /\ FracLT(heap[1].articulation, LEGATO) =>
               last.value.duration_millis >= RatioScaled
        /\ heap[1].articulation = STACCATISSIMO =>
               last.value.duration_millis = RatioScaled + 86
        /\ heap[1].articulation = STACCATO =>
               last.value.duration_millis = RatioScaled + 71

\* A staccatissimo note projected to more than its ratio-scaled milliseconds
C9_Witness ==
    /\ Projected
    /\ heap[1].articulation = STACCATISSIMO
    /\ last.value.duration_millis > RatioScaled

----------------------------------------------------------------------------
(* A parsed score converted by Melody.from_stream *)

\* Four markings of the articulation table and one that is not in it
MarkingKinds == {"Staccatissimo", "Staccato", "DetachedLegato", "Tenuto", "Accent"}

\* The marking lists of n notes that carry at most k markings in all
RECURSIVE Markings(_, _)
Markings(n, k) ==
    IF n = 0
    THEN {<<>>}
    ELSE UNION {{<<first>> \o rest : rest \in Markings(n - 1, k - Len(first))} :
                   first \in UNION {[1 .. m -> MarkingKinds] : m \in 0 .. k}}

\* Note i of a score: a quarter note on beat i, A4 and C4 in turn
ScoreNote(i, articulations) ==
    [pitch |-> IF i % 2 = 1 THEN Fraction(440, 1) ELSE Fraction(26163, 100),
     offset |-> FromInt(i - 1),
     quarterLength |-> FromInt(1),
     articulations |-> articulations]

\* The slurs over n notes: the two or more notes each spans, in score order
RECURSIVE Ascending(_)
Ascending(ids) ==
    IF ids = {}
    THEN <<>>
    ELSE LET least == CHOOSE i \in ids : \A j \in ids : i <= j
         IN  <<least>> \o Ascending(ids \ {least})
Spans(n) == {Ascending(ids) : ids \in {span \in SUBSET (1 .. n) : Cardinality(span) >= 2}}

\* A dotted-quarter beat at 80.5 per minute
TempoIndications ==
    {NoIndication, [referent |-> Fraction(3, 2), numberSounding |-> Fraction(161, 2)]}

\* The score of n notes with the given markings, slurs and tempo indication
Score(n, markings, slurs, indication) ==
    [notes |-> [i \in 1 .. n |-> ScoreNote(i, markings[i])],
     slurs |-> slurs,
     tempo_indication |-> indication]

InitStream ==
    /\ \E n \in 0 .. MaxNotes :
           \E markings \in Markings(n, MaxMarks), slurs \in SUBSET Spans(n),
              indication \in TempoIndications :
               stream = Score(n, markings, slurs, indication)
    /\ heap = <<>>
    /\ melody = NoMelody
    /\ tempo = NoTempo
    /\ last = NoCall
    /\ prev = NoCall

\* Melody.from_stream(stream)
FromStream ==
    /\ melody = NoMelody
    /\ LET result == from_stream(stream)
       IN  /\ heap' = result.heap
           /\ melody' = result.melody
    /\ last' = [op |-> "from_stream"]
    /\ UNCHANGED <<stream, tempo, prev>>

NextStream == FromStream

SpecStream == InitStream /\ [][NextStream]_vars

Converted == last.op = "from_stream"

\* Note i is in some slur, and not as its last note
SlurredOn(i) == \E slur \in stream.slurs : \E k \in 1 .. Len(slur) - 1 : slur[k] = i

Carries(i, kind) == any_of_type(stream.notes[i].articulations, kind)

\* Note i carries a marking that the marking pass resolves
Resolved(i) ==
    \E k \in 1 .. Len(stream.notes[i].articulations) :
        stream.notes[i].articulations[k] \in DOMAIN MUSIC21_ARTICULATION_MAPPING

\* C2 as stated: after from_stream, every note slurred on to a next note is
\* legato, whatever markings it carries
C2_SlurredIsLegato ==
    Converted =>
        \A i \in DOMAIN heap : SlurredOn(i) => heap[i].articulation = LEGATO

\* C2 amended: after from_stream, every note slurred on to a next note that
\* carries no marking of the articulation table is legato; one that carries
\* such a marking has the ratio of its marking, not legato
C2_UnmarkedSlurredIsLegato ==
    Converted =>
        \A i \in DOMAIN heap :
            SlurredOn(i) =>
                IF Resolved(i)
                THEN heap[i].articulation # LEGATO
                ELSE heap[i].articulation = LEGATO

\* A slurred-on note with only a marking outside the table, made legato, and
\* the staccato note that ends its slur
C2_Witness ==
    /\ Converted
    /\ \E i \in DOMAIN heap :
           /\ SlurredOn(i)
           /\ stream.notes[i].articulations = <<"Accent">>
           /\ heap[i].articulation = LEGATO
    /\ \E i \in DOMAIN heap :
           /\ ~SlurredOn(i)
           /\ \E slur \in stream.slurs : slur[Len(slur)] = i
           /\ heap[i].articulation = STACCATO

\* C3: after from_stream, a note that carries both a Staccato and a Tenuto
\* marking has articulation 3/7
C3_MezzoStaccato ==
    Converted =>
        \A i \in DOMAIN heap :
            (Carries(i, "Staccato") /\ Carries(i, "Tenuto")) =>
                heap[i].articulation = Fraction(3, 7)

\* A slurred-on note with Tenuto, a further marking and Staccato, in that order
C3_Witness ==
    /\ Converted
    /\ \E i \in DOMAIN heap :
           /\ SlurredOn(i)
           /\ stream.notes[i].articulations = <<"Tenuto", "Staccatissimo", "Staccato">>
           /\ heap[i].articulation = MEZZO_STACCATO

====
